---- MODULE Spec2Model ----
(***************************************************************************)
(* Model of the "hello" HTTP service of learning-swarm (src/main.go).      *)
(*                                                                         *)
(* Three handlers (POST /hellos, GET /hellos/{id}, GET /hellos) run one    *)
(* goroutine per request against a shared Redis store.  The only points    *)
(* at which requests interleave are the store commands, so every action    *)
(* below is one store command together with the handler code that runs     *)
(* before the next command (or up to the response).                        *)
(*                                                                         *)
(* The store is outside the program: besides answering commands it may     *)
(* fail a command with a transport error (the command then has no effect), *)
(* and an administrator may delete a key or overwrite it with a payload    *)
(* that is not JSON.                                                       *)
(***************************************************************************)
EXTENDS Integers, Sequences, FiniteSets, TLC

\* ---------------------------------------------------------------- bounds
MaxReq == 3        \* requests served in one behaviour
MaxTrouble == 1    \* failed store commands plus administrator operations

\* ------------------------------------------------------------- constants
HelloKey == "hello:"
MinNameLen == 3
StatusOK == 200
StatusNoContent == 204
StatusBadRequest == 400
StatusNotFound == 404
StatusInternalServerError == 500

Reqs == 1..MaxReq

\* ------------------------------------------------------------------ JSON
\* A JSON text is a sequence of strings: the keys and values of an object,
\* flattened.  A text of odd length is cut short and does not parse.
DecodeOK(p) == Len(p) % 2 = 0

HasField(p, k) == \E i \in 1..(Len(p) \div 2) : p[2 * i - 1] = k

\* encoding/json keeps the last occurrence of a key; an absent key leaves
\* the Go zero value "".
Field(p, k) ==
    IF HasField(p, k)
    THEN LET i == CHOOSE j \in 1..(Len(p) \div 2) :
                      /\ p[2 * j - 1] = k
                      /\ \A m \in 1..(Len(p) \div 2) : p[2 * m - 1] = k => m <= j
         IN  p[2 * i]
    ELSE ""

ZeroHello == [ID |-> "", Name |-> ""]

\* The Name field left out of the stored text.
MarshalBinaryNoName(h) == <<"ID", h.ID>>

MarshalBinary(h) == <<"ID", h.ID, "Name", h.Name>>

Unmarshal(p) == [ID |-> Field(p, "ID"), Name |-> Field(p, "Name")]

\* ------------------------------------------------------------------ DTOs
ZeroDTO == [id |-> "", name |-> ""]

\* The name not copied into the Hello.
toHelloNoName(dto) == ZeroHello

toHello(dto) == [ID |-> "", Name |-> dto.Name]

ToHelloResponseDTO(h) == [id |-> h.ID, name |-> h.Name]

\* The length rule off by one.
ValidateStructMin2(dto) == dto.Name # "" /\ Len(dto.Name) >= MinNameLen - 1

\* validate:"required,min=3" on CreateHelloRequestDTO.Name
ValidateStruct(dto) == dto.Name # "" /\ Len(dto.Name) >= MinNameLen

\* shouldBindJSON: nil error iff the body decodes and the struct validates.
shouldBindJSON(body) ==
    IF ~DecodeOK(body) THEN [err |-> "decode", dto |-> [Name |-> ""]]
    ELSE LET dto == [Name |-> Field(body, "name")]
         IN  IF ~ValidateStruct(dto) THEN [err |-> "validate", dto |-> dto]
             ELSE [err |-> "", dto |-> dto]

\* ------------------------------------------------------------- responses
NoResponse == [status |-> 0, kind |-> "none", dto |-> ZeroDTO, list |-> <<>>]

responseErr(statusCode) ==
    [status |-> statusCode, kind |-> "error", dto |-> ZeroDTO, list |-> <<>>]

responseBadRequest == responseErr(StatusBadRequest)

responseNotFound == responseErr(StatusNotFound)

responseInternalServerError == responseErr(StatusInternalServerError)

responseNoContent ==
    [status |-> StatusNoContent, kind |-> "empty", dto |-> ZeroDTO, list |-> <<>>]

responseOK(dto) ==
    [status |-> StatusOK, kind |-> "dto", dto |-> dto, list |-> <<>>]

\* json.Marshal of a nil slice is the text null, of a non-empty one an array.
responseOKList(l) ==
    [status |-> StatusOK, kind |-> IF l = <<>> THEN "null" ELSE "list",
     dto |-> ZeroDTO, list |-> l]

\* ----------------------------------------------------------------- state
VARIABLES
    store,      \* the Redis database: key -> payload, for the keys present
    req,        \* the requests: input, handler position, locals, response
    issued,     \* the identifiers uuid.NewString has returned
    faults,     \* store commands failed so far
    tampered,   \* keys an administrator deleted or overwrote
    obs         \* per request, what an observer of the store saw it do

vars == <<store, req, issued, faults, tampered, obs>>

UUID(i) == "u" \o ToString(i)

IDPool == {UUID(i) : i \in Reqs}

ForeignKey == "config:app"

Junk == <<"{">>

Names == {"alice", "bob", "ab"}

\* The identifiers clients ask for: one the service issues first, one it
\* issues second or never.
PathIDs == {UUID(1), UUID(2)}

Bodies == {<<"name", n>> : n \in Names} \cup {<<>>, Junk}

IdleReq ==
    [kind |-> "none", pc |-> "idle", body |-> <<>>, id |-> "",
     hello |-> ZeroHello, keys |-> <<>>, hellos |-> <<>>, resp |-> NoResponse]

\* The observer counts the commands a request sends and notes the state of
\* the store at the moment of each; it reads the store, never the handler.
NoObs ==
    [nSet |-> 0, nGet |-> 0, io |-> FALSE, wrote |-> FALSE,
     absent |-> FALSE, bad |-> FALSE, found |-> 0, seen |-> {}, quiet |-> FALSE]

Init ==
    /\ store = (ForeignKey :> <<"replicas", "3">>)
    /\ req = [r \in Reqs |-> IdleReq]
    /\ issued = {}
    /\ faults = 0
    /\ tampered = {}
    /\ obs = [r \in Reqs |-> NoObs]

\* ------------------------------------------------------------ the store
Present(k) == k \in DOMAIN store

Put(k, v) == [x \in DOMAIN store \cup {k} |-> IF x = k THEN v ELSE store[x]]

Del(k) == [x \in DOMAIN store \ {k} |-> store[x]]

\* glob match of the pattern prefix*
MatchPrefix(prefix, k) ==
    Len(k) >= Len(prefix) /\ SubSeq(k, 1, Len(prefix)) = prefix

Perms(S) ==
    {s \in [1..Cardinality(S) -> S] : \A i, j \in 1..Cardinality(S) : s[i] = s[j] => i = j}

\* GET: the value, redis.Nil for an absent key, or a transport error.
rdbGet(k, fail) ==
    IF fail THEN [err |-> "io", val |-> <<>>]
    ELSE IF Present(k) THEN [err |-> "", val |-> store[k]]
    ELSE [err |-> "nil", val |-> <<>>]

\* The store misbehaves only while the budget lasts.
Trouble == faults + Cardinality(tampered)

MayFail(fail) == fail => Trouble < MaxTrouble

Count(fail) == IF fail THEN faults + 1 ELSE faults

\* Requests are taken in slot order; those taken run concurrently.
Arrives(r) ==
    /\ req[r].pc = "idle"
    /\ \A q \in Reqs : q < r => req[q].pc # "idle"

\* ------------------------------------------------------- POST /hellos
\* A generator that repeats itself.
NewStringRepeats == {UUID(1)}

\* uuid.NewString: an identifier never returned before.  Identifiers are
\* interchangeable, so the generator hands out the pool in order.
NewString == {UUID(Cardinality(issued) + 1)}

\* Every record under the one key "hello:hello".
StoreKeyShared(h) == HelloKey \o "hello"

\* The key of rdb.Set.
StoreKey(h) == HelloKey \o h.ID

\* The confirmation read takes its key from a variable all requests share:
\* the identifier generated last.
ConfirmKeyShared(h) == HelloKey \o UUID(Cardinality(issued))

\* The key of the confirmation rdb.Get.
ConfirmKey(h) == HelloKey \o h.ID

\* setHello up to the return of rdb.Set inside storeCreateHello: bind the
\* body and answer 400, or build the Hello, give it an identifier, marshal
\* it and write it; a failed write is answered 500.
setHello(r, body, fail) ==
    /\ Arrives(r)
    /\ LET b == shouldBindJSON(body)
       IN  IF b.err # ""
           THEN /\ ~fail
                /\ req' = [req EXCEPT ![r] = [@ EXCEPT !.kind = "create", !.pc = "done",
                                                     !.body = body,
                                                     !.resp = responseBadRequest]]
                /\ UNCHANGED <<store, issued, faults, obs>>
           ELSE /\ MayFail(fail)
                /\ \E u \in NewString :
                     LET h == [toHello(b.dto) EXCEPT !.ID = u]
                     IN  /\ issued' = issued \cup {u}
                         /\ IF fail
                            THEN /\ store' = store
                                 /\ req' = [req EXCEPT ![r] = [@ EXCEPT
                                        !.kind = "create", !.pc = "done", !.body = body,
                                        !.hello = h,
                                        !.resp = responseInternalServerError]]
                            ELSE /\ store' = Put(StoreKey(h), MarshalBinary(h))
                                 /\ req' = [req EXCEPT ![r] = [@ EXCEPT
                                        !.kind = "create", !.pc = "confirm",
                                        !.body = body, !.hello = h]]
                /\ faults' = Count(fail)
                /\ obs' = [obs EXCEPT ![r] = [@ EXCEPT !.nSet = @ + 1, !.io = @ \/ fail,
                                                     !.wrote = ~fail]]
    /\ UNCHANGED tampered

\* What setHello answers once the confirmation read has returned res.
storeCreateHelloReply(res) ==
    IF res.err # "" THEN responseInternalServerError
    ELSE IF ~DecodeOK(res.val) THEN responseInternalServerError
    ELSE responseOK(ToHelloResponseDTO(Unmarshal(res.val)))

\* A create that deletes its record when the confirmation fails.
storeCreateHelloGetRollback(r, fail) ==
    /\ req[r].pc = "confirm"
    /\ MayFail(fail)
    /\ LET res == rdbGet(ConfirmKey(req[r].hello), fail)
       IN  /\ req' = [req EXCEPT ![r] = [@ EXCEPT !.pc = "done",
                                                !.resp = storeCreateHelloReply(res)]]
           /\ store' = IF res.err # "" \/ ~DecodeOK(res.val)
                       THEN Del(StoreKey(req[r].hello)) ELSE store
    /\ faults' = Count(fail)
    /\ obs' = [obs EXCEPT ![r] = [@ EXCEPT !.nGet = @ + 1, !.io = @ \/ fail]]
    /\ UNCHANGED <<issued, tampered>>

\* storeCreateHello from the confirmation rdb.Get on, and setHello's answer.
storeCreateHelloGet(r, fail) ==
    /\ req[r].pc = "confirm"
    /\ MayFail(fail)
    /\ req' = [req EXCEPT ![r] = [@ EXCEPT !.pc = "done",
                   !.resp = storeCreateHelloReply(rdbGet(ConfirmKey(req[r].hello), fail))]]
    /\ faults' = Count(fail)
    /\ obs' = [obs EXCEPT ![r] = [@ EXCEPT !.nGet = @ + 1, !.io = @ \/ fail]]
    /\ UNCHANGED <<store, issued, tampered>>

\* --------------------------------------------------- GET /hellos/{id}
\* redis.Nil not told apart from the other errors.
getHelloByIDReplyNoNil(res) ==
    IF res.err # "" THEN responseInternalServerError
    ELSE IF ~DecodeOK(res.val) THEN responseInternalServerError
    ELSE responseOK(ToHelloResponseDTO(Unmarshal(res.val)))

getHelloByIDReply(res) ==
    IF res.err # ""
    THEN IF res.err = "nil" THEN responseNotFound ELSE responseInternalServerError
    ELSE IF ~DecodeOK(res.val) THEN responseInternalServerError
    ELSE responseOK(ToHelloResponseDTO(Unmarshal(res.val)))

getHelloByID(r, id, fail) ==
    /\ Arrives(r)
    /\ MayFail(fail)
    /\ req' = [req EXCEPT ![r] = [@ EXCEPT !.kind = "get", !.pc = "done", !.id = id,
                   !.resp = getHelloByIDReply(rdbGet(HelloKey \o id, fail))]]
    /\ faults' = Count(fail)
    /\ obs' = [obs EXCEPT ![r] = [@ EXCEPT !.nGet = @ + 1, !.io = @ \/ fail,
                                         !.absent = ~Present(HelloKey \o id),
                                         !.bad = Present(HelloKey \o id)
                                                 /\ ~DecodeOK(store[HelloKey \o id])]]
    /\ UNCHANGED <<store, issued, tampered>>

\* -------------------------------------------------------- GET /hellos
\* KEYS pattern: the keys that match, in an order the store chooses.  The
\* reply is an array, which is never the nil reply.
rdbKeys(prefix, fail) ==
    IF fail THEN {[err |-> "io", val |-> <<>>]}
    ELSE {[err |-> "", val |-> ks] :
              ks \in Perms({k \in DOMAIN store : MatchPrefix(prefix, k)})}

\* Lines 155-159.
helloResponseList(hellos) ==
    responseOKList([i \in 1..Len(hellos) |-> ToHelloResponseDTO(hellos[i])])

\* What getHelloList does with the reply of rdb.Keys: answer at once (an
\* error, or no key so that the loop body never runs), or start the loop.
getHelloListKeys(res) ==
    IF res.err # ""
    THEN [pc |-> "done", keys |-> <<>>,
          resp |-> IF res.err = "nil" THEN responseNoContent
                   ELSE responseInternalServerError]
    ELSE IF res.val = <<>>
    THEN [pc |-> "done", keys |-> <<>>, resp |-> helloResponseList(<<>>)]
    ELSE [pc |-> "iter", keys |-> res.val, resp |-> NoResponse]

getHelloList(r, fail) ==
    /\ Arrives(r)
    /\ MayFail(fail)
    /\ \E res \in rdbKeys(HelloKey, fail) :
         LET n == getHelloListKeys(res)
         IN  req' = [req EXCEPT ![r] = [@ EXCEPT !.kind = "list", !.pc = n.pc,
                                                !.keys = n.keys, !.resp = n.resp]]
    /\ faults' = Count(fail)
    /\ obs' = [obs EXCEPT ![r] = [@ EXCEPT
                 !.io = @ \/ fail,
                 !.found = Cardinality({k \in DOMAIN store : MatchPrefix(HelloKey, k)}),
                 !.seen = {c \in Reqs : req[c].kind = "create"
                                        /\ req[c].resp.status = StatusOK},
                 !.quiet = \A c \in Reqs : req[c].pc # "confirm"]]
    /\ UNCHANGED <<store, issued, tampered>>

\* A loop that skips a key it cannot read or decode and goes on.
getHelloListGetSkip(r, fail) ==
    /\ req[r].pc = "iter"
    /\ MayFail(fail)
    /\ LET k == Head(req[r].keys)
           res == rdbGet(k, fail)
           hs == IF res.err # "" \/ ~DecodeOK(res.val) THEN req[r].hellos
                 ELSE Append(req[r].hellos, Unmarshal(res.val))
       IN  /\ IF Tail(req[r].keys) = <<>>
              THEN req' = [req EXCEPT ![r] = [@ EXCEPT !.pc = "done",
                               !.keys = <<>>, !.hellos = <<>>,
                               !.resp = helloResponseList(hs)]]
              ELSE req' = [req EXCEPT ![r] = [@ EXCEPT !.keys = Tail(@), !.hellos = hs]]
           /\ obs' = [obs EXCEPT ![r] = [@ EXCEPT !.nGet = @ + 1, !.io = @ \/ fail,
                         !.bad = @ \/ fail \/ ~Present(k) \/ ~DecodeOK(store[k])]]
    /\ faults' = Count(fail)
    /\ UNCHANGED <<store, issued, tampered>>

\* One turn of the loop of lines 141-154 on the next key, and the answer
\* when the loop ends or breaks off.
getHelloListGet(r, fail) ==
    /\ req[r].pc = "iter"
    /\ MayFail(fail)
    /\ LET k == Head(req[r].keys)
           res == rdbGet(k, fail)
       IN  /\ IF res.err # "" \/ ~DecodeOK(res.val)
              THEN req' = [req EXCEPT ![r] = [@ EXCEPT !.pc = "done",
                                        !.keys = <<>>, !.hellos = <<>>,
                                        !.resp = responseInternalServerError]]
              ELSE LET hs == Append(req[r].hellos, Unmarshal(res.val))
                   IN  IF Tail(req[r].keys) = <<>>
                       THEN req' = [req EXCEPT ![r] = [@ EXCEPT !.pc = "done",
                                        !.keys = <<>>, !.hellos = <<>>,
                                        !.resp = helloResponseList(hs)]]
                       ELSE req' = [req EXCEPT ![r] = [@ EXCEPT
                                        !.keys = Tail(@), !.hellos = hs]]
           /\ obs' = [obs EXCEPT ![r] = [@ EXCEPT !.nGet = @ + 1, !.io = @ \/ fail,
                         !.bad = @ \/ fail \/ ~Present(k) \/ ~DecodeOK(store[k])]]
    /\ faults' = Count(fail)
    /\ UNCHANGED <<store, issued, tampered>>

\* ------------------------------------------- external administration
Tamperable(k) ==
    /\ Present(k)
    /\ MatchPrefix(HelloKey, k)
    /\ k \notin tampered
    /\ Trouble < MaxTrouble

adminDel(k) ==
    /\ Tamperable(k)
    /\ store' = Del(k)
    /\ tampered' = tampered \cup {k}
    /\ UNCHANGED <<req, issued, faults, obs>>

adminCorrupt(k) ==
    /\ Tamperable(k)
    /\ store' = Put(k, Junk)
    /\ tampered' = tampered \cup {k}
    /\ UNCHANGED <<req, issued, faults, obs>>

\* ---------------------------------------------------------------- spec
Next ==
    \/ \E r \in Reqs, body \in Bodies, fail \in BOOLEAN : setHello(r, body, fail)
    \/ \E r \in Reqs, fail \in BOOLEAN : storeCreateHelloGet(r, fail)
    \/ \E r \in Reqs, id \in PathIDs, fail \in BOOLEAN : getHelloByID(r, id, fail)
    \/ \E r \in Reqs, fail \in BOOLEAN : getHelloList(r, fail)
    \/ \E r \in Reqs, fail \in BOOLEAN : getHelloListGet(r, fail)
    \/ \E k \in DOMAIN store : adminDel(k)
    \/ \E k \in DOMAIN store : adminCorrupt(k)

Spec == Init /\ [][Next]_vars

\* ============================================================ properties
\* What the claims speak of, read off the requests and the store directly.
IsCreate(r) == req[r].kind = "create"

IsGet(r) == req[r].kind = "get"

IsList(r) == req[r].kind = "list"

Done(r) == req[r].pc = "done"

Status(r) == req[r].resp.status

\* A body that decodes and names at least three characters.
ValidBody(body) ==
    /\ Len(body) = 2
    /\ body[1] = "name"
    /\ Len(body[2]) >= 3

Submitted(r) == req[r].body[2]

\* The store key of the identifier generated for create r.
KeyOf(r) == "hello:" \o req[r].hello.ID

\* The stored text of a record.
Text(id, name) == <<"ID", id, "Name", name>>

\* The record a successful create r answered with.
Created(r) == [id |-> req[r].resp.dto.id, name |-> Submitted(r)]

\* C1: a create whose body is valid, none of whose store commands failed and
\* whose key no administrator touched is answered 200 with a non-empty id,
\* and no two creates answered 200 carry the same id.
C1_CreateReturnsUniqueId ==
    /\ \A r \in Reqs :
         (IsCreate(r) /\ Done(r) /\ ValidBody(req[r].body)
          /\ ~obs[r].io /\ KeyOf(r) \notin tampered)
         => (Status(r) = 200 /\ req[r].resp.dto.id # "")
    /\ \A r, q \in Reqs :
         (r # q /\ IsCreate(r) /\ IsCreate(q) /\ Status(r) = 200 /\ Status(q) = 200)
         => req[r].resp.dto.id # req[q].resp.dto.id

C1_Witness ==
    \E r, q \in Reqs :
        /\ r # q /\ IsCreate(r) /\ IsCreate(q)
        /\ Status(r) = 200 /\ Status(q) = 200
        /\ req[r].resp.dto.id # "" /\ req[q].resp.dto.id # ""

\* C2: a GET by id served after a create answered 200 with that id, with the
\* GET command succeeding and the key untouched by an administrator, answers
\* 200 with that id and the name the create submitted.
C2_RoundTrip ==
    [][\A g, c \in Reqs :
         (/\ req[g].pc = "idle" /\ req'[g].kind = "get"
          /\ IsCreate(c) /\ Status(c) = 200
          /\ req'[g].id = req[c].resp.dto.id
          /\ faults' = faults
          /\ ("hello:" \o req'[g].id) \notin tampered)
         => (/\ req'[g].pc = "done"
             /\ req'[g].resp.status = 200
             /\ req'[g].resp.dto = Created(c))]_vars

C2_Witness ==
    \E g, c, x \in Reqs :
        /\ c < x /\ x < g
        /\ IsCreate(c) /\ Status(c) = 200
        /\ IsCreate(x) /\ Status(x) = 200
        /\ IsGet(g) /\ Status(g) = 200
        /\ req[g].id = req[c].resp.dto.id
        /\ req[g].resp.dto = Created(c)

\* C3: a GET by id whose command reaches the store and finds the key absent
\* answers 404; 404 is answered for an absent key only; 500 is answered only
\* when the command failed or the stored payload does not decode.
C3_AbsentIsNotFound ==
    \A r \in Reqs :
        (IsGet(r) /\ Done(r)) =>
            /\ (obs[r].absent /\ ~obs[r].io) => Status(r) = 404
            /\ Status(r) = 404 => obs[r].absent
            /\ Status(r) = 500 => (obs[r].io \/ obs[r].bad)

C3_Witness ==
    \E r, q \in Reqs :
        /\ IsGet(r) /\ Done(r) /\ obs[r].absent /\ ~obs[r].io /\ Status(r) = 404
        /\ IsGet(q) /\ Done(q) /\ Status(q) = 500

\* C4: a list request whose key enumeration succeeds and finds no key under
\* the record prefix answers 204; it answers 200 only when at least one
\* record was found.
C4_EmptyListIsNoContent ==
    \A r \in Reqs :
        (IsList(r) /\ Done(r)) =>
            /\ (~obs[r].io /\ obs[r].found = 0) => Status(r) = 204
            /\ Status(r) = 200 => obs[r].found >= 1

\* C5: a create whose body does not decode, or whose name is missing or
\* shorter than three characters, is answered 400 in a step that sends no
\* store command, leaves the store as it was and generates no identifier.
C5_RejectedBeforeWrite ==
    [][\A r \in Reqs :
         (req[r].pc = "idle" /\ req'[r].kind = "create" /\ ~ValidBody(req'[r].body))
         => (/\ req'[r].pc = "done"
             /\ req'[r].resp.status = 400
             /\ store' = store
             /\ obs'[r].nSet = 0 /\ obs'[r].nGet = 0
             /\ req'[r].hello.ID = ""
             /\ issued' = issued)]_vars

C5_Witness ==
    \E a, b, c \in Reqs :
        /\ IsCreate(a) /\ req[a].body = <<"name", "ab">> /\ Status(a) = 400
        /\ IsCreate(b) /\ req[b].body = <<>> /\ Status(b) = 400
        /\ IsCreate(c) /\ ~DecodeOK(req[c].body) /\ Status(c) = 400

\* C6: a list request that enumerates the keys when k creates have answered
\* 200 and no create is between its write and its answer, with no store
\* command failed and no administrator operation, answers 200 with exactly k
\* entries: the id and the submitted name of each of those creates.
C6_ListReturnsAllCreated ==
    \A l \in Reqs :
        (IsList(l) /\ Done(l) /\ obs[l].quiet /\ faults = 0 /\ tampered = {})
        => (/\ Status(l) = 200
            /\ Len(req[l].resp.list) = Cardinality(obs[l].seen)
            /\ {req[l].resp.list[i] : i \in 1..Len(req[l].resp.list)}
                 = {Created(c) : c \in obs[l].seen})

C6_Witness ==
    \E l \in Reqs :
        /\ IsList(l) /\ Done(l) /\ obs[l].quiet /\ faults = 0 /\ tampered = {}
        /\ Cardinality(obs[l].seen) = 2
        /\ Len(req[l].resp.list) = 2
        /\ {req[l].resp.list[i].name : i \in 1..2} = {"alice", "bob"}

\* C7: every value under a record key that no administrator touched is the
\* text of a record with a non-empty id and a name of at least three
\* characters, stored under the prefix followed by that id.
C7_PersistedRecordsWellFormed ==
    \A k \in DOMAIN store :
        (MatchPrefix("hello:", k) /\ k \notin tampered) =>
            /\ Len(store[k]) = 4
            /\ store[k][1] = "ID" /\ store[k][3] = "Name"
            /\ store[k][2] # ""
            /\ Len(store[k][4]) >= 3
            /\ k = "hello:" \o store[k][2]

C7_Witness ==
    \E k \in DOMAIN store :
        /\ MatchPrefix("hello:", k) /\ k \notin tampered
        /\ store[k] = Text("u2", "bob")

\* C8: a list request one of whose reads failed, found the key gone or found
\* a payload that does not decode has answered 500 with an error body and no
\* record, at that read.
C8_ListFailFast ==
    \A l \in Reqs :
        (IsList(l) /\ obs[l].bad)
        => (/\ Done(l)
            /\ Status(l) = 500
            /\ req[l].resp.kind = "error"
            /\ req[l].resp.list = <<>>
            /\ obs[l].nGet <= obs[l].found)

C8_Witness ==
    \E l \in Reqs :
        /\ IsList(l) /\ obs[l].bad /\ obs[l].found = 2 /\ obs[l].nGet = 2
        /\ Status(l) = 500

\* C9: whatever the interleaving, a create answered 200 carries the name it
\* submitted and the identifier generated for it, which was generated for no
\* other request.
C9_CreateAnswersItsOwnRecord ==
    \A r \in Reqs :
        (IsCreate(r) /\ Status(r) = 200)
        => (/\ req[r].resp.dto.id = req[r].hello.ID
            /\ req[r].resp.dto.name = Submitted(r)
            /\ \A q \in Reqs :
                 (q # r /\ IsCreate(q)) => req[q].hello.ID # req[r].hello.ID)

C9_Witness ==
    \E r, q \in Reqs :
        /\ r < q /\ IsCreate(r) /\ IsCreate(q)
        /\ req[q].pc = "confirm"
        /\ Status(r) = 200 /\ obs[r].nGet = 1
        /\ Submitted(r) # Submitted(q)
        /\ Present(KeyOf(q))

====
